---- MODULE Spec2Model ----
(***************************************************************************)
(* Model of callahantiff/ValueSet-Tools:                                   *)
(*   - vsac_wrangler/vsac_api.py : ticket authentication and value-set     *)
(*     retrieval (SpecFetch);                                              *)
(*   - vsac_wrangler/main.py     : the record mapper (SpecMapper),         *)
(*     get_vsac_csv (SpecVsacCsv), the places that decompose the purpose   *)
(*     text (SpecPurpose) and the timestamp format (SpecTimestamp);        *)
(*   - enclave_wrangler/main.py  : the three-stage submission run          *)
(*     (SpecSubmit).                                                       *)
(* The program is single-threaded and synchronous, so every function call  *)
(* of the program is one atomic action; the remote services' answers are   *)
(* the nondeterministic inputs of the actions.                             *)
(***************************************************************************)
EXTENDS Integers, Sequences, FiniteSets, TLC

VARIABLES
    \* ---- vsac_api.py ----
    tgtCache,     \* module global _ticket_granting_ticket
    http,         \* every HTTP request vsac_api.py has issued, in order
    calls,        \* outcome of every completed top-level call, in order
    stSerial,     \* remote CAS service: number of service tickets minted so far
    pickleFile,   \* vsac_wrangler.main.run: content of the cache pickle file
    \* ---- vsac_wrangler/main.py: get_palantir_csv ----
    value_sets,           \* the argument: a sequence of value-set records
    oid__codeset_id_map,  \* OID -> synthetic codeset_id
    rows1,                \* concept_set_version_item_rv_edited rows
    rows2,                \* code_sets rows
    rows3,                \* concept_set_container_edited rows
    saved,                \* the tables written to disk so far (_save_csv)
    mpc,                  \* position in get_palantir_csv
    mexc,                 \* the exception get_palantir_csv raised, if any
    \* ---- enclave_wrangler/main.py: run ----
    in_tables,    \* the three tables of input_csv_folder_path
    json_rows,    \* the three *_json_all_rows lists
    spc,          \* position in run
    stage,        \* index of the current remote action in the order run uses
    posts,        \* the POST requests issued, in order
    events,       \* submissions and their outcomes, in order
    cs_version_id,                     \* run's local of that name
    upd_cs_ver_expression_items_dict,  \* run's local of that name
    sexc,         \* the exception run raised, if any
    \* ---- functions of vsac_wrangler/main.py called on their own ----
    arg,          \* the argument of the call
    applied,      \* the function that was called, None before the call
    result        \* what the call returned or raised

fetchVars == <<tgtCache, http, calls, stSerial, pickleFile>>
mapperVars == <<value_sets, oid__codeset_id_map, rows1, rows2, rows3, saved,
                mpc, mexc>>

submitVars == <<in_tables, json_rows, spc, stage, posts, events,
                cs_version_id, upd_cs_ver_expression_items_dict, sexc>>

callVars == <<arg, applied, result>>

vars == <<fetchVars, mapperVars, submitVars, callVars>>

\* ------------------------------------------------------------------------
\* Bounds of the model
\* ------------------------------------------------------------------------
\* number of top-level calls made in one process
MaxCalls == 2
\* number of value-set records handed to the mapper
MaxValueSets == 2

\* ------------------------------------------------------------------------
\* Values
\* ------------------------------------------------------------------------
\* Python's None
None == "None"

\* Ticket-granting tickets the identity service may hand out.
TGTs == {"TGT-a", "TGT-b"}

\* A response of the identity endpoint (POST .../cas/v1/api-key): with a form
\* its HTML body holds <form action="https://.../cas/v1/api-key/<TGT>">,
\* modelled by the path segments of the action URL.
IdResponses ==
    {[form |-> TRUE, path |-> <<"cas", "v1", "api-key", t>>] : t \in TGTs}
    \cup {[form |-> FALSE, path |-> <<>>]}

\* A response of the ticket-issuance endpoint (POST .../cas/v1/tickets/<TGT>):
\* a 2xx answer carries a newly minted single-use service ticket as its body,
\* a non-2xx answer carries an error text.
TicketResponses(serial) ==
    {[status |-> 200, text |-> [kind |-> "ST", n |-> serial + 1]],
     [status |-> 401, text |-> [kind |-> "error-page", n |-> 0]]}

\* A response of the retrieval endpoint (GET RetrieveMultipleValueSets /
\* RetrieveValueSet): a status and a body that is either XML of the
\* described-value-set schema, other well-formed XML, or no XML at all.
BodyKinds == {"schema", "other-xml", "not-xml"}

GetResponses ==
    {[status |-> s, body |-> b] : s \in {200, 500}, b \in BodyKinds}

Is2xx(status) == status >= 200 /\ status < 300

\* No exception / no value
NoExc == [type |-> None, raisedIn |-> None]
Exc(type, fn) == [type |-> type, raisedIn |-> fn]

\* One HTTP request of the log.
NoTicket == [kind |-> None, n |-> 0]

\* One HTTP request of the log, with what the remote end answered: `call` is
\* the top-level call that issued it; `tgt` the TGT in the URL of a
\* ticket-issuance POST; `ticket` the ticket parameter of a GET, and for a
\* ticket-issuance POST the response body; `form` whether the identity
\* response held a form.
Req(kind, tgt, ticket, status, form) ==
    [call |-> Len(calls) + 1, kind |-> kind, tgt |-> tgt, ticket |-> ticket,
     status |-> status, form |-> form]

\* The outcome of one top-level call.
Call(op, exc, tgt, ticket, data) ==
    [op |-> op, exc |-> exc, tgt |-> tgt, ticket |-> ticket, data |-> data]

\* ------------------------------------------------------------------------
\* vsac_api.py as functions of the cache and of the remote answers.
\* Each yields [cache, reqs, exc, ret]: the new cache, the requests issued,
\* the exception raised (NoExc when it returns) and the value returned.
\* ------------------------------------------------------------------------
\* urllib3.util.parse_url(tgt_url).path.split('/')[-1]
LastSegment(path) == path[Len(path)]

\* get_ticket_granting_ticket() without the test of the global at lines 30-31:
\* the identity POST is issued on every call.
get_ticket_granting_ticket_uncached(cache, idResp) ==
    LET post == Req("identity", None, NoTicket, 200, idResp.form) IN
    IF ~idResp.form
    THEN [cache |-> cache, reqs |-> <<post>>,
          exc |-> Exc("AttributeError", "get_ticket_granting_ticket"),
          ret |-> None]
    ELSE [cache |-> LastSegment(idResp.path), reqs |-> <<post>>,
          exc |-> NoExc, ret |-> LastSegment(idResp.path)]

\* get_ticket_granting_ticket() assigning the global before the form is
\* looked up: a response without a form leaves a bad value cached.
get_ticket_granting_ticket_eager(cache, idResp) ==
    IF cache # None
    THEN [cache |-> cache, reqs |-> <<>>, exc |-> NoExc, ret |-> cache]
    ELSE LET post == Req("identity", None, NoTicket, 200, idResp.form) IN
         IF ~idResp.form
         THEN [cache |-> "no-form", reqs |-> <<post>>,
               exc |-> Exc("AttributeError", "get_ticket_granting_ticket"),
               ret |-> None]
         ELSE [cache |-> LastSegment(idResp.path), reqs |-> <<post>>,
               exc |-> NoExc, ret |-> LastSegment(idResp.path)]

\* get_ticket_granting_ticket()
get_ticket_granting_ticket(cache, idResp) ==
    IF cache # None
    THEN [cache |-> cache, reqs |-> <<>>, exc |-> NoExc, ret |-> cache]
    ELSE LET post == Req("identity", None, NoTicket, 200, idResp.form) IN
         IF ~idResp.form
         THEN \* soup.find('form') is None: None.attrs raises, before the
              \* assignment to the global
              [cache |-> cache, reqs |-> <<post>>,
               exc |-> Exc("AttributeError", "get_ticket_granting_ticket"),
               ret |-> None]
         ELSE [cache |-> LastSegment(idResp.path), reqs |-> <<post>>,
               exc |-> NoExc, ret |-> LastSegment(idResp.path)]

\* get_service_ticket()
get_service_ticket(cache, idResp, tkResp) ==
    LET g == get_ticket_granting_ticket(cache, idResp) IN
    IF g.exc # NoExc
    THEN [cache |-> g.cache, reqs |-> g.reqs, exc |-> g.exc, ret |-> NoTicket,
          status |-> 0]
    ELSE [cache |-> g.cache,
          reqs |-> Append(g.reqs, Req("ticket", g.ret, tkResp.text, tkResp.status, FALSE)),
          exc |-> NoExc,
          ret |-> tkResp.text,
          status |-> tkResp.status]

\* xmltodict.parse(xml_str): raises on a body that is not XML
XmlParses(body) == body # "not-xml"

\* get_value_sets(oids) keeping the service ticket of an earlier read, the way
\* the TGT is kept: the GET is sent with the last ticket issued, if any.
get_value_sets_reusing(cache, idResp, tkResp, getResp) ==
    LET issued == {j \in 1..Len(http) : http[j].kind = "ticket"}
        last == CHOOSE j \in issued : \A k \in issued : k <= j
        t == IF issued = {}
             THEN get_service_ticket(cache, idResp, tkResp)
             ELSE [cache |-> cache, reqs |-> <<>>, exc |-> NoExc,
                   ret |-> http[last].ticket, status |-> http[last].status]
    IN
    IF t.exc # NoExc
    THEN [cache |-> t.cache, reqs |-> t.reqs, exc |-> t.exc, ret |-> None,
          ticket |-> NoTicket]
    ELSE [cache |-> t.cache,
          reqs |-> Append(t.reqs, Req("get", None, t.ret, getResp.status, FALSE)),
          exc |-> IF ~XmlParses(getResp.body)
                  THEN Exc("ExpatError", "get_value_sets")
                  ELSE IF getResp.body # "schema"
                  THEN Exc("KeyError", "get_value_sets") ELSE NoExc,
          ret |-> IF getResp.body = "schema" THEN "value_sets" ELSE None,
          ticket |-> t.ret]

\* get_value_sets(oids)
get_value_sets(cache, idResp, tkResp, getResp) ==
    LET t == get_service_ticket(cache, idResp, tkResp) IN
    IF t.exc # NoExc
    THEN [cache |-> t.cache, reqs |-> t.reqs, exc |-> t.exc, ret |-> None,
          ticket |-> NoTicket]
    ELSE LET reqs == Append(t.reqs, Req("get", None, t.ret, getResp.status, FALSE)) IN
         IF ~XmlParses(getResp.body)
         THEN [cache |-> t.cache, reqs |-> reqs,
               exc |-> Exc("ExpatError", "get_value_sets"), ret |-> None,
               ticket |-> t.ret]
         ELSE IF getResp.body # "schema"
         THEN \* value_sets_dict['ns0:RetrieveMultipleValueSetsResponse'] is absent
              [cache |-> t.cache, reqs |-> reqs,
               exc |-> Exc("KeyError", "get_value_sets"), ret |-> None,
               ticket |-> t.ret]
         ELSE [cache |-> t.cache, reqs |-> reqs, exc |-> NoExc,
               ret |-> "value_sets", ticket |-> t.ret]

\* get_value_set(oid)
get_value_set(cache, idResp, tkResp, getResp) ==
    LET t == get_service_ticket(cache, idResp, tkResp) IN
    IF t.exc # NoExc
    THEN [cache |-> t.cache, reqs |-> t.reqs, exc |-> t.exc, ret |-> None,
          ticket |-> NoTicket]
    ELSE LET reqs == Append(t.reqs, Req("get", None, t.ret, getResp.status, FALSE)) IN
         IF ~XmlParses(getResp.body)
         THEN [cache |-> t.cache, reqs |-> reqs,
               exc |-> Exc("ExpatError", "get_value_set"), ret |-> None,
               ticket |-> t.ret]
         ELSE [cache |-> t.cache, reqs |-> reqs, exc |-> NoExc,
               ret |-> IF getResp.body = "schema" THEN "value_set" ELSE "dict",
               ticket |-> t.ret]

\* The remote CAS service mints a ticket for every 2xx ticket-issuance answer.
Minted(reqs) ==
    Cardinality({i \in 1..Len(reqs) :
                    reqs[i].kind = "ticket" /\ Is2xx(reqs[i].status)})

\* ------------------------------------------------------------------------
\* Actions of SpecFetch: one per top-level call of vsac_api.py / main.run
\* ------------------------------------------------------------------------
MapperIdle ==
    /\ value_sets = <<>>
    /\ oid__codeset_id_map = <<>>
    /\ rows1 = <<>>
    /\ rows2 = <<>>
    /\ rows3 = <<>>
    /\ saved = {}
    /\ mpc = "idle"
    /\ mexc = NoExc

SubmitIdle ==
    /\ in_tables = <<>>
    /\ json_rows = <<>>
    /\ spc = "idle"
    /\ stage = 0
    /\ posts = <<>>
    /\ events = <<>>
    /\ cs_version_id = 0
    /\ upd_cs_ver_expression_items_dict = <<>>
    /\ sexc = NoExc

CallIdle ==
    /\ arg = None
    /\ applied = None
    /\ result = None

FetchIdle ==
    /\ tgtCache = None
    /\ http = <<>>
    /\ calls = <<>>
    /\ stSerial = 0
    /\ pickleFile = None

FetchInit ==
    /\ MapperIdle
    /\ SubmitIdle
    /\ CallIdle
    /\ tgtCache = None
    /\ http = <<>>
    /\ calls = <<>>
    /\ stSerial = 0
    /\ pickleFile \in {None, "value_sets"}

CallGetTicketGrantingTicket ==
    /\ Len(calls) < MaxCalls
    /\ \E idResp \in IdResponses :
         LET r == get_ticket_granting_ticket(tgtCache, idResp) IN
         /\ tgtCache' = r.cache
         /\ http' = http \o r.reqs
         /\ calls' = Append(calls, Call("get_ticket_granting_ticket", r.exc,
                                        r.cache, NoTicket, r.ret))
    /\ UNCHANGED <<stSerial, pickleFile>>
    /\ UNCHANGED <<mapperVars, submitVars, callVars>>

CallGetServiceTicket ==
    /\ Len(calls) < MaxCalls
    /\ \E idResp \in IdResponses, tkResp \in TicketResponses(stSerial) :
         LET r == get_service_ticket(tgtCache, idResp, tkResp) IN
         /\ tgtCache' = r.cache
         /\ http' = http \o r.reqs
         /\ stSerial' = stSerial + Minted(r.reqs)
         /\ calls' = Append(calls, Call("get_service_ticket", r.exc,
                                        r.cache, r.ret, None))
    /\ UNCHANGED pickleFile
    /\ UNCHANGED <<mapperVars, submitVars, callVars>>

CallGetValueSets ==
    /\ Len(calls) < MaxCalls
    /\ \E idResp \in IdResponses, tkResp \in TicketResponses(stSerial),
          getResp \in GetResponses :
         LET r == get_value_sets(tgtCache, idResp, tkResp, getResp) IN
         /\ tgtCache' = r.cache
         /\ http' = http \o r.reqs
         /\ stSerial' = stSerial + Minted(r.reqs)
         /\ calls' = Append(calls, Call("get_value_sets", r.exc,
                                        r.cache, r.ticket, r.ret))
    /\ UNCHANGED pickleFile
    /\ UNCHANGED <<mapperVars, submitVars, callVars>>

CallGetValueSet ==
    /\ Len(calls) < MaxCalls
    /\ \E idResp \in IdResponses, tkResp \in TicketResponses(stSerial),
          getResp \in GetResponses :
         LET r == get_value_set(tgtCache, idResp, tkResp, getResp) IN
         /\ tgtCache' = r.cache
         /\ http' = http \o r.reqs
         /\ stSerial' = stSerial + Minted(r.reqs)
         /\ calls' = Append(calls, Call("get_value_set", r.exc,
                                        r.cache, r.ticket, r.ret))
    /\ UNCHANGED pickleFile
    /\ UNCHANGED <<mapperVars, submitVars, callVars>>

\* vsac_wrangler.main.run(use_cache): the fetch part of the run. With a usable
\* cache file the value sets are loaded and nothing is fetched; otherwise
\* get_value_sets is called and its result pickled before the output stage.
Run ==
    /\ Len(calls) < MaxCalls
    /\ \E use_cache \in BOOLEAN :
         IF use_cache /\ pickleFile # None
         THEN /\ calls' = Append(calls, Call("run", NoExc, tgtCache, NoTicket,
                                             pickleFile))
              /\ UNCHANGED <<tgtCache, http, stSerial, pickleFile>>
         ELSE \E idResp \in IdResponses, tkResp \in TicketResponses(stSerial),
                 getResp \in GetResponses :
                LET r == get_value_sets(tgtCache, idResp, tkResp, getResp) IN
                /\ tgtCache' = r.cache
                /\ http' = http \o r.reqs
                /\ stSerial' = stSerial + Minted(r.reqs)
                /\ pickleFile' = IF r.exc = NoExc THEN r.ret ELSE pickleFile
                /\ calls' = Append(calls, Call("run", r.exc, r.cache,
                                               r.ticket, r.ret))
    /\ UNCHANGED <<mapperVars, submitVars, callVars>>

FetchNext ==
    \/ CallGetTicketGrantingTicket
    \/ CallGetServiceTicket
    \/ CallGetValueSets
    \/ CallGetValueSet
    \/ Run

SpecFetch == FetchInit /\ [][FetchNext]_vars

\* ------------------------------------------------------------------------
\* Vocabulary of the properties of SpecFetch
\* ------------------------------------------------------------------------
\* The requests of kind k issued by top-level call c / by any call.
ReqsOf(c, k) == {j \in 1..Len(http) : http[j].call = c /\ http[j].kind = k}
ReqsOfKind(k) == {j \in 1..Len(http) : http[j].kind = k}

\* A run that loaded the value sets from the cache file calls nothing of
\* vsac_api.py.
CacheHit(c) == calls[c].op = "run" /\ calls[c].ticket = NoTicket /\ calls[c].exc = NoExc

\* The remote reads.
ReadOps == {"get_value_sets", "get_value_set"}

\* The error taxonomy of the design (AuthError, FetchError, RemoteError) in
\* terms of the exceptions the code raises: a failure while a ticket is
\* obtained is an AuthError, a failure to parse the retrieved body as the
\* expected schema is a FetchError; a RemoteError is a failure raised for the
\* status of the retrieval response.
ErrorClass(exc) ==
    CASE exc = NoExc -> None
      [] exc.raisedIn \in {"get_ticket_granting_ticket", "get_service_ticket"}
            -> "AuthError"
      [] exc.type \in {"ExpatError", "KeyError"} -> "FetchError"
      [] exc.type = "HTTPError" -> "RemoteError"
      [] OTHER -> "Error"

\* C1: from an empty TGT cache, n >= 1 successful get_service_ticket() calls
\* issue exactly one identity POST and exactly n ticket-issuance POSTs, and
\* every call uses the TGT the first call cached.
C1_OneIdentityPostNTicketPosts ==
    (/\ Len(calls) >= 1
     /\ \A i \in 1..Len(calls) :
           calls[i].op = "get_service_ticket" /\ calls[i].exc = NoExc)
    => /\ Cardinality(ReqsOfKind("identity")) = 1
       /\ Cardinality(ReqsOfKind("ticket")) = Len(calls)
       /\ ReqsOf(1, "identity") # {}
       /\ \A i \in 1..Len(calls) :
             /\ calls[i].tgt = calls[1].tgt
             /\ calls[i].tgt \in TGTs
             /\ \A j \in ReqsOf(i, "ticket") : http[j].tgt = calls[1].tgt

\* C1 witness: two consecutive successful get_service_ticket() calls, both
\* answered with a minted ticket.
C1_Witness ==
    /\ Len(calls) = 2
    /\ \A i \in 1..2 :
         /\ calls[i].op = "get_service_ticket"
         /\ calls[i].exc = NoExc
         /\ calls[i].ticket.kind = "ST"

\* C2: every remote read mints its own service ticket immediately before its
\* GET: a read issues at most one ticket-issuance POST and one GET, exactly
\* one of each once it holds a TGT; the ticket its GET sends is the body of
\* the ticket-issuance response of the same read, which directly precedes the
\* GET; and no service ticket is sent in more than one GET.
C2_FreshTicketPerRead ==
    /\ \A c \in 1..Len(calls) :
         calls[c].op \in ReadOps =>
            /\ Cardinality(ReqsOf(c, "ticket")) <= 1
            /\ Cardinality(ReqsOf(c, "get")) <= 1
            /\ calls[c].exc.raisedIn # "get_ticket_granting_ticket" =>
                  /\ Cardinality(ReqsOf(c, "ticket")) = 1
                  /\ Cardinality(ReqsOf(c, "get")) = 1
    /\ \A j \in ReqsOfKind("get") :
         /\ j > 1
         /\ http[j - 1].kind = "ticket"
         /\ http[j - 1].call = http[j].call
         /\ http[j - 1].ticket = http[j].ticket
    /\ \A j, k \in ReqsOfKind("get") :
         (http[j].ticket.kind = "ST" /\ http[j].ticket = http[k].ticket) => j = k

\* C2 witness: two reads, one by each function, each sent its GET with a
\* minted ticket.
C2_Witness ==
    /\ Len(calls) = 2
    /\ calls[1].op = "get_value_sets" /\ calls[2].op = "get_value_set"
    /\ \A c \in 1..2 :
         \E j \in ReqsOf(c, "get") : http[j].ticket.kind = "ST"

\* C7: when the identity response holds no HTML form,
\* get_ticket_granting_ticket() fails with an AuthError and leaves the TGT
\* cache unset, so the next call that needs a TGT issues the identity POST
\* again.
C7_NoFormFailsAndCachesNothing ==
    \A j \in ReqsOfKind("identity") :
       ~http[j].form =>
          LET c == http[j].call IN
          /\ calls[c].exc.raisedIn = "get_ticket_granting_ticket"
          /\ ErrorClass(calls[c].exc) = "AuthError"
          /\ calls[c].tgt = None
          /\ (c < Len(calls) /\ ~CacheHit(c + 1))
                => ReqsOf(c + 1, "identity") # {}

\* C7 witness: a direct get_ticket_granting_ticket() call met a response
\* without a form, and the next call obtained a TGT with a new identity POST.
C7_Witness ==
    /\ Len(calls) = 2
    /\ calls[1].op = "get_ticket_granting_ticket"
    /\ calls[1].exc # NoExc
    /\ \E j \in ReqsOf(1, "identity") : ~http[j].form
    /\ \E j \in ReqsOf(2, "identity") : http[j].form
    /\ tgtCache \in TGTs

\* C8 (as claimed): get_service_ticket() fails with AuthError whenever the
\* ticket-issuance endpoint answers non-2xx, and the body of such an answer
\* is never returned as a ticket nor sent in a GET.
C8_Claim_Non2xxTicketFails ==
    \A j \in ReqsOfKind("ticket") :
       ~Is2xx(http[j].status) =>
          LET c == http[j].call IN
          /\ ErrorClass(calls[c].exc) = "AuthError"
          /\ calls[c].ticket = NoTicket
          /\ \A k \in ReqsOf(c, "get") : http[k].ticket # http[j].ticket

\* C9 (as claimed): get_value_sets fails with RemoteError when the bulk GET
\* answers non-2xx and with FetchError when the body does not parse as the
\* expected schema; either way no records are returned, the run fails and
\* nothing is retried.
C9_Claim_FetchFailures ==
    \A c \in 1..Len(calls) :
       calls[c].op \in {"get_value_sets", "run"} =>
          \A j \in ReqsOf(c, "get") :
             /\ Cardinality(ReqsOf(c, "get")) = 1
             /\ ~Is2xx(http[j].status) =>
                   /\ ErrorClass(calls[c].exc) = "RemoteError"
                   /\ calls[c].data = None
             /\ (Is2xx(http[j].status) /\ calls[c].data = None) =>
                   ErrorClass(calls[c].exc) = "FetchError"

\* ========================================================================
\* vsac_wrangler/main.py: the record mapper get_palantir_csv
\* ========================================================================
\* Texts are sequences of tokens: "(", ")" and "," are the characters the
\* purpose decomposition looks at, any other token is a run of other
\* characters.
VSAC_LABEL_PREFIX == "[VSAC Bulk-Import test] "

\* The purpose annotation of a value set as the terminology service writes it
\* (four parenthesized clauses separated by "),"), and one with three clauses.
Purpose4 ==
    <<"(", "Clinical Focus: ", "a", ")", ",",
      "(", "Data Element Scope: ", "b", ")", ",",
      "(", "Inclusion Criteria: ", "c", ")", ",",
      "(", "Exclusion Criteria: ", "d", ")">>

Purpose3 ==
    <<"(", "Clinical Focus: ", "a", ")", ",",
      "(", "Data Element Scope: ", "b", ")", ",",
      "(", "Inclusion Criteria: ", "c", ")">>

Concept(code, system) ==
    [code |-> code, codeSystem |-> system, displayName |-> <<"name of ", code>>]

\* value_set['ns0:ConceptList']['ns0:Concept'] of the records handed over
ConceptLists ==
    {<<>>,
     <<Concept("c1", "SNOMEDCT")>>,
     <<Concept("c1", "SNOMEDCT"), Concept("c2", "ICD10CM")>>,
     <<Concept("c1", "SNOMEDCT"), Concept("c2", "SNOMEDCT"),
       Concept("c1", "SNOMEDCT")>>}

DisplayNameOf(oid) == IF oid = "oid1" THEN "Asthma" ELSE "Diabetes"

ValueSetRecords ==
    {[ID |-> o, displayName |-> DisplayNameOf(o), Purpose |-> p, Concepts |-> cs] :
        o \in {"oid1", "oid2"}, p \in {Purpose4, Purpose3}, cs \in ConceptLists}

\* All sequences over S of length at most n
SeqsUpTo(S, n) == UNION {[1..k -> S] : k \in 0..n}

\* randint(0, 1000000000): nothing keeps two draws apart
IdPool == {7, 8}

\* str.split(sep), for a separator of one or more tokens
StartsAt(s, sep, i) ==
    /\ i + Len(sep) - 1 <= Len(s)
    /\ SubSeq(s, i, i + Len(sep) - 1) = sep

RECURSIVE SplitFrom(_, _, _, _)
SplitFrom(s, sep, i, cur) ==
    IF i > Len(s) THEN <<cur>>
    ELSE IF StartsAt(s, sep, i)
         THEN <<cur>> \o SplitFrom(s, sep, i + Len(sep), <<>>)
         ELSE SplitFrom(s, sep, i + 1, Append(cur, s[i]))

Split(s, sep) == SplitFrom(s, sep, 1, <<>>)

\* s[a:b] of Python, a and b counted from 0, negative ones from the end
PyIndex(n, a) ==
    LET b == IF a < 0 THEN a + n ELSE a IN
    IF b < 0 THEN 0 ELSE IF b > n THEN n ELSE b

PySlice(s, a, b) == SubSeq(s, PyIndex(Len(s), a) + 1, PyIndex(Len(s), b))

\* sep.join(parts)
RECURSIVE Join(_, _)
Join(parts, sep) ==
    IF parts = <<>> THEN <<>>
    ELSE IF Len(parts) = 1 THEN parts[1]
    ELSE parts[1] \o <<sep>> \o Join(Tail(parts), sep)

\* The body of the loop `for p in purposes`: p[i1:i2]
StripParens(p) ==
    LET i1 == IF p[1] = "(" THEN 1 ELSE 0
        i2 == IF p[Len(p)] = ")" THEN -1 ELSE Len(p)
    IN PySlice(p, i1, i2)

\* purposes2 of a purpose text; p[len(p) - 1] raises on an empty clause
Purposes2(purpose) ==
    LET purposes == Split(purpose, <<")", ",">>) IN
    IF \E i \in 1..Len(purposes) : purposes[i] = <<>>
    THEN [exc |-> Exc("IndexError", "get_palantir_csv"), val |-> <<>>]
    ELSE [exc |-> NoExc,
          val |-> [i \in 1..Len(purposes) |-> StripParens(purposes[i])]]

\* list(code_system_codes.keys()): the code systems in order of first use
RECURSIVE CodeSystems(_)
CodeSystems(concepts) ==
    IF concepts = <<>> THEN <<>>
    ELSE LET front == CodeSystems(SubSeq(concepts, 1, Len(concepts) - 1))
             last == concepts[Len(concepts)].codeSystem
         IN IF \E i \in 1..Len(front) : front[i] = last THEN front
            ELSE Append(front, last)

\* I. oid__codeset_id_map after the first loop, rnd[i] being the number drawn
\* for the i-th record: a later record of the same OID overwrites the entry.
CodesetIds(vss, rnd) ==
    [o \in {vss[i].ID : i \in 1..Len(vss)} |->
        LET last == CHOOSE i \in 1..Len(vss) :
                       /\ vss[i].ID = o
                       /\ \A j \in 1..Len(vss) : vss[j].ID = o => j <= i
        IN rnd[last]]

\* The version-item rows carrying the id of the first record's OID, whatever
\* the record they come from.
VersionItemRowsOf_first_oid(vss, ids, i) ==
    [k \in 1..Len(vss[i].Concepts) |->
        [vs |-> i,
         codeset_id |-> ids[vss[1].ID],
         concept_id |-> "",
         code |-> vss[i].Concepts[k].code,
         codeSystem |-> vss[i].Concepts[k].codeSystem,
         isExcluded |-> FALSE,
         includeDescendants |-> TRUE,
         includeMapped |-> FALSE,
         annotation |-> "Generated from VSAC export"]]

\* The rows one value set contributes to each table. The field vs (the
\* position of the record in value_sets) is not a column: it only tells the
\* rows of one record from the rows of another. item_id (uuid4), created_at
\* and created_by are left out.
VersionItemRowsOf(vss, ids, i) ==
    [k \in 1..Len(vss[i].Concepts) |->
        [vs |-> i,
         codeset_id |-> ids[vss[i].ID],
         concept_id |-> "",
         code |-> vss[i].Concepts[k].code,
         codeSystem |-> vss[i].Concepts[k].codeSystem,
         isExcluded |-> FALSE,
         includeDescendants |-> TRUE,
         includeMapped |-> FALSE,
         annotation |-> "Generated from VSAC export"]]

CodeSetRowOf(vss, ids, i) ==
    LET purposes2 == Purposes2(vss[i].Purpose).val IN
    [vs |-> i,
     codeset_id |-> ids[vss[i].ID],
     concept_set_name |-> <<VSAC_LABEL_PREFIX, vss[i].displayName>>,
     concept_set_version_title |-> <<VSAC_LABEL_PREFIX, vss[i].displayName, " (v1)">>,
     project |-> "RP-4A9E",
     status |-> "Under Construction",
     intention |-> Join(PySlice(purposes2, 0, 3), "; "),
     limitations |-> purposes2[4],
     provenance |-> <<"OID: ", vss[i].ID, "Code System(s): ">>
                       \o CodeSystems(vss[i].Concepts),
     update_message |-> "Initial version.",
     is_draft |-> TRUE]

\* The container table with one row for a value set instead of one for each
\* of its concepts.
ContainerRowsOf_per_value_set(vss, i) ==
    LET purposes2 == Purposes2(vss[i].Purpose).val IN
    [k \in 1..(IF vss[i].Concepts = <<>> THEN 0 ELSE 1) |->
        [vs |-> i,
         concept_set_id |-> <<VSAC_LABEL_PREFIX, vss[i].displayName>>,
         concept_set_name |-> <<VSAC_LABEL_PREFIX, vss[i].displayName>>,
         status |-> "Under Construction",
         stage |-> "Awaiting Editing",
         intention |-> Join(PySlice(purposes2, 0, 3), "; "),
         alias |-> vss[i].Concepts[k].displayName,
         archived |-> FALSE]]

ContainerRowsOf(vss, i) ==
    LET purposes2 == Purposes2(vss[i].Purpose).val IN
    [k \in 1..Len(vss[i].Concepts) |->
        [vs |-> i,
         concept_set_id |-> <<VSAC_LABEL_PREFIX, vss[i].displayName>>,
         concept_set_name |-> <<VSAC_LABEL_PREFIX, vss[i].displayName>>,
         status |-> "Under Construction",
         stage |-> "Awaiting Editing",
         intention |-> Join(PySlice(purposes2, 0, 3), "; "),
         alias |-> vss[i].Concepts[k].displayName,
         archived |-> FALSE]]

\* The concatenation of f[1], ..., f[n]
RECURSIVE Concat(_, _)
Concat(f, n) == IF n = 0 THEN <<>> ELSE Concat(f, n - 1) \o f[n]

\* The first record whose rows a loop cannot build, 0 if there is none:
\* the code_sets loop needs purposes2[3], the container loop only the slice
\* purposes2[0:3]; both need every clause to be non-empty.
RECURSIVE FirstFailing(_, _, _)
FirstFailing(vss, i, needsFour) ==
    IF i > Len(vss) THEN 0
    ELSE LET p == Purposes2(vss[i].Purpose) IN
         IF p.exc # NoExc \/ (needsFour /\ Len(p.val) < 4) THEN i
         ELSE FirstFailing(vss, i + 1, needsFour)

\* ------------------------------------------------------------------------
\* Actions of SpecMapper: get_palantir_csv(value_sets), section by section
\* ------------------------------------------------------------------------
MapperInit ==
    /\ FetchIdle
    /\ SubmitIdle
    /\ CallIdle
    /\ value_sets \in SeqsUpTo(ValueSetRecords, MaxValueSets)
    /\ oid__codeset_id_map = <<>>
    /\ rows1 = <<>>
    /\ rows2 = <<>>
    /\ rows3 = <<>>
    /\ saved = {}
    /\ mpc = "ids"
    /\ mexc = NoExc

\* I. Create IDs that will be shared between files
CreateIds ==
    /\ mpc = "ids"
    /\ \E rnd \in [1..Len(value_sets) -> IdPool] :
         oid__codeset_id_map' = CodesetIds(value_sets, rnd)
    /\ mpc' = "table1"
    /\ UNCHANGED <<value_sets, rows1, rows2, rows3, saved, mexc>>
    /\ UNCHANGED <<fetchVars, submitVars, callVars>>

\* II.1 concept_set_version_item_rv_edited
BuildVersionItems ==
    /\ mpc = "table1"
    /\ rows1' = Concat([i \in 1..Len(value_sets) |->
                          VersionItemRowsOf(value_sets, oid__codeset_id_map, i)],
                       Len(value_sets))
    /\ saved' = saved \cup {"concept_set_version_item_rv_edited"}
    /\ mpc' = "table2"
    /\ UNCHANGED <<value_sets, oid__codeset_id_map, rows2, rows3, mexc>>
    /\ UNCHANGED <<fetchVars, submitVars, callVars>>

\* II.2 code_sets
BuildCodeSets ==
    /\ mpc = "table2"
    /\ IF FirstFailing(value_sets, 1, TRUE) # 0
       THEN /\ mexc' = Exc("IndexError", "get_palantir_csv")
            /\ mpc' = "raised"
            /\ UNCHANGED <<rows2, saved>>
       ELSE /\ rows2' = [i \in 1..Len(value_sets) |->
                            CodeSetRowOf(value_sets, oid__codeset_id_map, i)]
            /\ saved' = saved \cup {"code_sets"}
            /\ mpc' = "table3"
            /\ UNCHANGED mexc
    /\ UNCHANGED <<value_sets, oid__codeset_id_map, rows1, rows3>>
    /\ UNCHANGED <<fetchVars, submitVars, callVars>>

\* II.3 concept_set_container_edited
BuildContainers ==
    /\ mpc = "table3"
    /\ IF FirstFailing(value_sets, 1, FALSE) # 0
       THEN /\ mexc' = Exc("IndexError", "get_palantir_csv")
            /\ mpc' = "raised"
            /\ UNCHANGED <<rows3, saved>>
       ELSE /\ rows3' = Concat([i \in 1..Len(value_sets) |->
                                  ContainerRowsOf(value_sets, i)],
                               Len(value_sets))
            /\ saved' = saved \cup {"concept_set_container_edited"}
            /\ mpc' = "returned"
            /\ UNCHANGED mexc
    /\ UNCHANGED <<value_sets, oid__codeset_id_map, rows1, rows2>>
    /\ UNCHANGED <<fetchVars, submitVars, callVars>>

MapperNext ==
    \/ CreateIds
    \/ BuildVersionItems
    \/ BuildCodeSets
    \/ BuildContainers

SpecMapper == MapperInit /\ [][MapperNext]_vars

\* The rows of a table that come from the i-th value-set record
RowsOf(rows, i) == {k \in 1..Len(rows) : rows[k].vs = i}

\* C10: when get_palantir_csv returns, every value-set record with N concepts
\* has exactly N version-item rows, exactly N container rows and exactly one
\* code-set row, and the tables hold no other rows.
C10_RowCounts ==
    mpc = "returned" =>
       /\ \A i \in 1..Len(value_sets) :
             /\ Cardinality(RowsOf(rows1, i)) = Len(value_sets[i].Concepts)
             /\ Cardinality(RowsOf(rows3, i)) = Len(value_sets[i].Concepts)
             /\ Cardinality(RowsOf(rows2, i)) = 1
       /\ \A k \in 1..Len(rows1) : rows1[k].vs \in 1..Len(value_sets)
       /\ \A k \in 1..Len(rows2) : rows2[k].vs \in 1..Len(value_sets)
       /\ \A k \in 1..Len(rows3) : rows3[k].vs \in 1..Len(value_sets)
       /\ saved = {"concept_set_version_item_rv_edited", "code_sets",
                   "concept_set_container_edited"}

\* C10 witness: one value set with two concepts under two different code
\* systems gave two version-item rows, one code-set row and two container
\* rows.
C10_Witness ==
    /\ mpc = "returned"
    /\ Len(value_sets) = 1
    /\ Len(value_sets[1].Concepts) = 2
    /\ value_sets[1].Concepts[1].codeSystem # value_sets[1].Concepts[2].codeSystem
    /\ Len(rows1) = 2 /\ Len(rows2) = 1 /\ Len(rows3) = 2

\* The rows of a table that come from a value set of the given OID
RowsOfOid(rows, oid) ==
    {k \in 1..Len(rows) : value_sets[rows[k].vs].ID = oid}

\* C15: within one run of get_palantir_csv an OID has exactly one synthetic
\* codeset_id: every version-item row and every code-set row of a value set
\* of that OID carries the id the map holds for it, also when the OID occurs
\* in more than one record or a (codeSystem, code) pair more than once.
C15_OneCodesetIdPerOid ==
    \A i \in 1..Len(value_sets) :
       LET oid == value_sets[i].ID IN
       /\ \A k \in RowsOfOid(rows1, oid) :
             rows1[k].codeset_id = oid__codeset_id_map[oid]
       /\ \A k \in RowsOfOid(rows2, oid) :
             rows2[k].codeset_id = oid__codeset_id_map[oid]
       /\ \A k \in RowsOfOid(rows1, oid), j \in RowsOfOid(rows2, oid) :
             rows1[k].codeset_id = rows2[j].codeset_id

\* C15 witness: get_palantir_csv has returned for two records of two OIDs
\* that were given different ids, the second with a (codeSystem, code) pair
\* twice in its concept list; each has version-item rows and a code-set row.
C15_Witness ==
    /\ mpc = "returned"
    /\ Len(value_sets) = 2
    /\ value_sets[1].ID # value_sets[2].ID
    /\ oid__codeset_id_map[value_sets[1].ID] # oid__codeset_id_map[value_sets[2].ID]
    /\ Len(value_sets[1].Concepts) = 2
    /\ Len(value_sets[2].Concepts) = 3
    /\ value_sets[2].Concepts[1] = value_sets[2].Concepts[3]
    /\ Cardinality(RowsOfOid(rows1, value_sets[2].ID)) = 3
    /\ Cardinality(RowsOfOid(rows2, value_sets[2].ID)) = 1

\* C15 second case: the same OID in two records, both with concepts; all
\* five version-item rows and both code-set rows carry one id.
C15_DuplicateOidReached ==
    /\ mpc = "returned"
    /\ Len(value_sets) = 2
    /\ value_sets[1].ID = value_sets[2].ID
    /\ Cardinality(RowsOfOid(rows1, value_sets[1].ID)) = 5
    /\ Cardinality(RowsOfOid(rows2, value_sets[1].ID)) = 2

\* ========================================================================
\* enclave_wrangler/main.py: the submission run
\* ========================================================================
API_CREATE_URL == "https://unite.nih.gov/actions/api/actions"

API_VALIDATE_URL ==
    "https://unite.nih.gov/actions/api/actions/validate?synchronousPropagation=false"

\* run's local api_url, set at line 125 and again at line 169; before it, the
\* run that targets the endpoint that commits.
api_url_create == API_CREATE_URL

api_url == API_VALIDATE_URL

\* enclave_api.py is not part of the sources at hand: the payload builders
\* and the POST helpers run calls are modelled from the design document.
get_cs_container_data(cs_name) ==
    [action |-> "CreateContainer", concept_set_name |-> cs_name]

get_cs_version_data(cs_name, cs_id, intention, limitations, update_msg, provenance) ==
    [action |-> "CreateVersion", concept_set_name |-> cs_name, version |-> cs_id,
     intention |-> intention, limitations |-> limitations,
     update_message |-> update_msg, provenance |-> provenance]

get_cs_version_expression_data(codeset_id, cs_name, code_list, exclude, descendents, mapped, annotation) ==
    [action |-> "AddExpressionItems", version |-> codeset_id,
     concept_set_name |-> cs_name, codes |-> code_list, exclude |-> exclude,
     descendents |-> descendents, mapped |-> mapped, annotation |-> annotation]

update_cs_version_expression_data_with_codesetid(version_id, dict) ==
    [dict EXCEPT !.version = version_id]

\* What the remote platform may answer to a stage.
ActionResponses == {"accepted", "rejected"}

\* Version ids the platform may assign; nothing keeps them apart from the
\* numbers the mapper drew.
RemoteVersionIds == {123, 7}

VersionResponses ==
    {[has_id |-> TRUE, id |-> v] : v \in RemoteVersionIds}
    \cup {[has_id |-> FALSE, id |-> 0]}

\* post_request_enclave_api_create_container / post_request_enclave_api:
\* a rejected action is a SubmissionError
post_request_enclave_api(resp) ==
    IF resp = "rejected"
    THEN Exc("SubmissionError", "post_request_enclave_api") ELSE NoExc

\* post_request_enclave_api_create_version: the version id of the answer, a
\* FatalProtocolError without one
post_request_enclave_api_create_version(resp) ==
    IF resp.has_id THEN NoExc
    ELSE Exc("FatalProtocolError", "post_request_enclave_api_create_version")

\* pd.read_csv(...).fillna('') of a table get_palantir_csv saved: the columns
\* of the rows, without the bookkeeping field vs.
ReadCsv(rows) ==
    [k \in 1..Len(rows) |->
        [f \in (DOMAIN rows[k]) \ {"vs"} |-> rows[k][f]]]

\* The tables of a folder the mapper wrote for the value sets vss.
TablesOf(vss, rnd) ==
    LET ids == CodesetIds(vss, rnd) IN
    [concept_set_container_edited |->
        ReadCsv(Concat([i \in 1..Len(vss) |-> ContainerRowsOf(vss, i)], Len(vss))),
     code_sets |->
        ReadCsv([i \in 1..Len(vss) |-> CodeSetRowOf(vss, ids, i)]),
     concept_set_version_item_rv_edited |->
        ReadCsv(Concat([i \in 1..Len(vss) |-> VersionItemRowsOf(vss, ids, i)],
                       Len(vss)))]

\* The folders run may be pointed at: those the mapper writes when it returns.
InputFolders ==
    {TablesOf(vss, rnd) :
        vss \in {v \in SeqsUpTo(ValueSetRecords, MaxValueSets) :
                    FirstFailing(v, 1, TRUE) = 0},
        rnd \in [1..MaxValueSets -> IdPool]}

\* concept_set_version_item_dict[key]: the item rows of a codeset_id
ItemsOf(items, key) ==
    LET idx == {k \in 1..Len(items) : items[k].codeset_id = key}
        RECURSIVE Pick(_)
        Pick(k) == IF k > Len(items) THEN <<>>
                   ELSE IF k \in idx THEN <<items[k]>> \o Pick(k + 1)
                   ELSE Pick(k + 1)
    IN Pick(1)

\* code_list after the first m item rows
CodeList(item_rows, m) ==
    [k \in 1..m |-> <<item_rows[k].codeSystem, ":", item_rows[k].code>>]

\* The expression-item payloads one code_sets row contributes (lines 97-121):
\* one for each of its item rows, built inside the inner loop. code_list is
\* one list object that keeps growing: whether a payload holds the codes as
\* they were when it was built or the list itself is enclave_api's choice
\* (`shared`).
ExpressionRowsOf(row, items, shared) ==
    LET mine == ItemsOf(items, row.codeset_id) IN
    [m \in 1..Len(mine) |->
        get_cs_version_expression_data(
            row.codeset_id, row.concept_set_name,
            CodeList(mine, IF shared THEN Len(mine) ELSE m),
            mine[1].isExcluded, mine[1].includeDescendants,
            mine[1].includeMapped, mine[1].annotation)]

\* Lines 64-121: the three lists of payloads, or the exception of line 104
\* for a code set without item rows.
BuildJson(t, shared) ==
    LET cs == t.code_sets
        items == t.concept_set_version_item_rv_edited
        cont == t.concept_set_container_edited
    IN
    IF \E k \in 1..Len(cs) : ItemsOf(items, cs[k].codeset_id) = <<>>
    THEN [exc |-> Exc("KeyError", "run"), rows |-> <<>>]
    ELSE [exc |-> NoExc,
          rows |->
            [container |-> [k \in 1..Len(cont) |->
                              get_cs_container_data(cont[k].concept_set_name)],
             version |-> [k \in 1..Len(cs) |->
                              get_cs_version_data(
                                  cs[k].concept_set_name, cs[k].codeset_id,
                                  cs[k].intention, cs[k].limitations,
                                  cs[k].update_message, cs[k].provenance)],
             expression |-> Concat([k \in 1..Len(cs) |->
                                      ExpressionRowsOf(cs[k], items, shared)],
                                   Len(cs))]]

\* The order in which run submits the remote actions (lines 142-170), with
\* the order in which two of them are swapped before it.
RunOrder_version_first == <<"CreateVersion", "CreateContainer", "AddExpressionItems">>

RunOrder == <<"CreateContainer", "CreateVersion", "AddExpressionItems">>

\* Where run goes once the call of stage k has raised e or returned (NoExc):
\* run has no try/except and no loop, an exception ends it. Before it, a run
\* that goes on after an exception and a run that submits the stage again.
AfterAnswer_swallowing(k, e) ==
    IF k = Len(RunOrder) THEN [spc |-> "returned", stage |-> k, exc |-> NoExc]
    ELSE [spc |-> "submit", stage |-> k + 1, exc |-> NoExc]

AfterAnswer_retrying(k, e) ==
    IF e # NoExc THEN [spc |-> "submit", stage |-> k, exc |-> NoExc]
    ELSE IF k = Len(RunOrder) THEN [spc |-> "returned", stage |-> k, exc |-> NoExc]
    ELSE [spc |-> "submit", stage |-> k + 1, exc |-> NoExc]

AfterAnswer(k, e) ==
    IF e # NoExc THEN [spc |-> "raised", stage |-> k, exc |-> e]
    ELSE IF k = Len(RunOrder) THEN [spc |-> "returned", stage |-> k, exc |-> NoExc]
    ELSE [spc |-> "submit", stage |-> k + 1, exc |-> NoExc]

\* Lines 157-158: the payload of stage 3 is the first expression-item
\* payload, rewritten with the version id of stage 2. Before it, the payload
\* taken as it was built.
UpdatedExpressionItems_as_built(version_id, rows) == rows[1]

UpdatedExpressionItems(version_id, rows) ==
    update_cs_version_expression_data_with_codesetid(version_id, rows[1])

Post(action, url, payload) == [action |-> action, url |-> url, payload |-> payload]
Event(what, action, id) == [what |-> what, action |-> action, id |-> id]

\* ------------------------------------------------------------------------
\* Actions of SpecSubmit: run(input_csv_folder_path), a blocking call of the
\* remote API being two steps (the request leaves, the call ends)
\* ------------------------------------------------------------------------
SubmitInit ==
    /\ FetchIdle
    /\ MapperIdle
    /\ CallIdle
    /\ in_tables \in InputFolders
    /\ json_rows = <<>>
    /\ spc = "build"
    /\ stage = 0
    /\ posts = <<>>
    /\ events = <<>>
    /\ cs_version_id = 0
    /\ upd_cs_ver_expression_items_dict = <<>>
    /\ sexc = NoExc

\* Lines 58-121
ReadAndBuild ==
    /\ spc = "build"
    /\ \E shared \in BOOLEAN :
         LET b == BuildJson(in_tables, shared) IN
         IF b.exc # NoExc
         THEN /\ spc' = "raised"
              /\ sexc' = b.exc
              /\ UNCHANGED <<json_rows, stage>>
         ELSE /\ json_rows' = b.rows
              /\ spc' = "submit"
              /\ stage' = 1
              /\ UNCHANGED sexc
    /\ UNCHANGED <<in_tables, posts, events, cs_version_id,
                   upd_cs_ver_expression_items_dict>>
    /\ UNCHANGED <<fetchVars, mapperVars, callVars>>

\* The request of a stage leaves, or the [0] that picks its payload raises.
Submit(action, rows, url) ==
    /\ spc = "submit"
    /\ RunOrder[stage] = action
    /\ IF rows = <<>>
       THEN /\ spc' = "raised"
            /\ sexc' = Exc("IndexError", "run")
            /\ UNCHANGED <<posts, events>>
       ELSE /\ posts' = Append(posts, Post(action, url, rows[1]))
            /\ events' = Append(events, Event("submitted", action, 0))
            /\ spc' = "wait"
            /\ UNCHANGED sexc
    /\ UNCHANGED <<in_tables, json_rows, stage, cs_version_id,
                   upd_cs_ver_expression_items_dict>>
    /\ UNCHANGED <<fetchVars, mapperVars, callVars>>

\* Line 142-145
SubmitCreateContainer ==
    Submit("CreateContainer", json_rows.container, api_url)

AnswerCreateContainer ==
    /\ spc = "wait"
    /\ RunOrder[stage] = "CreateContainer"
    /\ \E resp \in ActionResponses :
         LET e == post_request_enclave_api(resp)
             next == AfterAnswer(stage, e) IN
         /\ events' = Append(events,
                IF e = NoExc THEN Event("returned", "CreateContainer", 0)
                ELSE Event("raised", "CreateContainer", 0))
         /\ spc' = next.spc
         /\ stage' = next.stage
         /\ sexc' = next.exc
    /\ UNCHANGED <<in_tables, json_rows, posts, cs_version_id,
                   upd_cs_ver_expression_items_dict>>
    /\ UNCHANGED <<fetchVars, mapperVars, callVars>>

\* Lines 153-156; the URL is post_request_enclave_api_create_version's own
SubmitCreateVersion ==
    Submit("CreateVersion", json_rows.version,
           "post_request_enclave_api_create_version")

\* Lines 156-158
AnswerCreateVersion ==
    /\ spc = "wait"
    /\ RunOrder[stage] = "CreateVersion"
    /\ \E resp \in VersionResponses :
         LET e == post_request_enclave_api_create_version(resp)
             next == AfterAnswer(stage, e) IN
         /\ events' = Append(events,
                IF e = NoExc THEN Event("returned", "CreateVersion", resp.id)
                ELSE Event("raised", "CreateVersion", 0))
         /\ spc' = next.spc
         /\ stage' = next.stage
         /\ sexc' = next.exc
         /\ IF next.spc = "raised"
            THEN UNCHANGED <<cs_version_id, upd_cs_ver_expression_items_dict>>
            ELSE /\ cs_version_id' = resp.id
                 /\ upd_cs_ver_expression_items_dict' =
                       UpdatedExpressionItems(resp.id, json_rows.expression)
    /\ UNCHANGED <<in_tables, json_rows, posts>>
    /\ UNCHANGED <<fetchVars, mapperVars, callVars>>

\* Lines 169-170
SubmitAddExpressionItems ==
    Submit("AddExpressionItems", <<upd_cs_ver_expression_items_dict>>,
           api_url)

\* Lines 170-173
AnswerAddExpressionItems ==
    /\ spc = "wait"
    /\ RunOrder[stage] = "AddExpressionItems"
    /\ \E resp \in ActionResponses :
         LET e == post_request_enclave_api(resp)
             next == AfterAnswer(stage, e) IN
         /\ events' = Append(events,
                IF e = NoExc THEN Event("returned", "AddExpressionItems", 0)
                ELSE Event("raised", "AddExpressionItems", 0))
         /\ spc' = next.spc
         /\ stage' = next.stage
         /\ sexc' = next.exc
    /\ UNCHANGED <<in_tables, json_rows, posts, cs_version_id,
                   upd_cs_ver_expression_items_dict>>
    /\ UNCHANGED <<fetchVars, mapperVars, callVars>>

SubmitNext ==
    \/ ReadAndBuild
    \/ SubmitCreateContainer
    \/ AnswerCreateContainer
    \/ SubmitCreateVersion
    \/ AnswerCreateVersion
    \/ SubmitAddExpressionItems
    \/ AnswerAddExpressionItems

SpecSubmit == SubmitInit /\ [][SubmitNext]_vars

\* ------------------------------------------------------------------------
\* Properties of SpecSubmit
\* ------------------------------------------------------------------------
\* The positions of the log at which the request of an action left / at
\* which its call returned / raised.
EventsOf(what, action) ==
    {j \in 1..Len(events) : events[j].what = what /\ events[j].action = action}

PostsOf(action) == {k \in 1..Len(posts) : posts[k].action = action}

\* C3: the remote actions are submitted in the order CreateContainer,
\* CreateVersion, AddExpressionItems: CreateVersion is not submitted before
\* CreateContainer has returned, nor AddExpressionItems before CreateVersion
\* has returned.
C3_StageOrder ==
    /\ \A j \in EventsOf("submitted", "CreateVersion") :
          \E i \in EventsOf("returned", "CreateContainer") : i < j
    /\ \A j \in EventsOf("submitted", "AddExpressionItems") :
          \E i \in EventsOf("returned", "CreateVersion") : i < j
    /\ \A k \in 1..Len(posts) :
          posts[k].action =
             <<"CreateContainer", "CreateVersion", "AddExpressionItems">>[k]

\* C3 witness: a run that submitted all three actions and returned.
C3_Witness ==
    /\ spc = "returned"
    /\ Len(posts) = 3
    /\ EventsOf("returned", "AddExpressionItems") # {}

\* C4: the expression-item payload submitted at stage 3 carries in its
\* version-reference field the version id the create-version call of stage 2
\* returned, so never the codeset_id it was built with unless the platform
\* assigned that very number.
C4_VersionIdThreaded ==
    \A k \in PostsOf("AddExpressionItems") :
       /\ EventsOf("returned", "CreateVersion") # {}
       /\ \A j \in EventsOf("returned", "CreateVersion") :
             /\ posts[k].payload.version = events[j].id
             /\ events[j].id # json_rows.expression[1].version
                   => posts[k].payload.version # json_rows.expression[1].version
       /\ posts[k].payload.codes = json_rows.expression[1].codes
       /\ posts[k].payload.concept_set_name = json_rows.expression[1].concept_set_name

\* C4 witness: the platform returned version id 123 for a code set built
\* with another codeset_id, and stage 3 was submitted with 123.
C4_Witness ==
    /\ PostsOf("AddExpressionItems") # {}
    /\ cs_version_id = 123
    /\ json_rows.expression[1].version \in IdPool
    /\ \A k \in PostsOf("AddExpressionItems") : posts[k].payload.version = 123

\* C5: when the create-version call yields no version id the run fails with
\* FatalProtocolError and AddExpressionItems is never submitted.
C5_NoVersionIdIsFatal ==
    EventsOf("raised", "CreateVersion") # {} =>
       /\ spc = "raised"
       /\ sexc.type = "FatalProtocolError"
       /\ PostsOf("AddExpressionItems") = {}
       /\ EventsOf("submitted", "AddExpressionItems") = {}

\* C5 witness: the container was accepted, the version request left and its
\* answer held no id.
C5_Witness ==
    /\ EventsOf("returned", "CreateContainer") # {}
    /\ EventsOf("raised", "CreateVersion") # {}
    /\ spc = "raised"

C17_Claim_PayloadsOfOneConceptSet ==
    \A k \in PostsOf("CreateContainer"), v \in PostsOf("CreateVersion") :
       /\ posts[v].payload.concept_set_name = posts[k].payload.concept_set_name
       /\ \A x \in PostsOf("AddExpressionItems") :
             posts[x].payload.concept_set_name = posts[k].payload.concept_set_name

CodeCounts ==
    {0, 1, 1998, 1999, 2000, 2001, 2500, 3998, 3999, 4000, 4001, 4500}

\* the parameter code_delimiter of get_vsac_csv
code_delimiter == "|"

\* code_system_codes of one value set, as the sequence of its items: the
\* code systems in the order of their first use, each with its codes in the
\* order of the concept list.
CodeSystemCodes(concepts) ==
    LET n == Len(concepts)
        systems == {concepts[i].codeSystem : i \in 1..n}
        firstUse(s) == CHOOSE i \in 1..n :
                          /\ concepts[i].codeSystem = s
                          /\ \A j \in 1..(i - 1) : concepts[j].codeSystem # s
        rank(s) == Cardinality({t \in systems : firstUse(t) < firstUse(s)}) + 1
    IN [k \in 1..Cardinality(systems) |->
          LET s == CHOOSE t \in systems : rank(t) = k
              ofSystem == SelectSeq(concepts, LAMBDA c : c.codeSystem = s)
          IN [code_system |-> s,
              codes |-> [i \in 1..Len(ofSystem) |-> ofSystem[i].code]]]

\* code_delimiter.join(codes), every code being one token: the same text as
\* Join gives, written without recursion for the long lists.
JoinCodes(codes) ==
    IF codes = <<>> THEN <<>>
    ELSE [i \in 1..(2 * Len(codes) - 1) |->
            IF i % 2 = 1 THEN codes[(i + 1) \div 2] ELSE code_delimiter]

\* The columns codes, codes2 and codes3 of the row of one code system; a
\* column the code does not assign is not a field of the row.
CodeColumns(codes) ==
    IF Len(codes) < 2000
    THEN [codes |-> JoinCodes(codes)]
    ELSE IF Len(codes) < 4000
         THEN [codes |-> JoinCodes(PySlice(codes, 0, 1999)),
               codes2 |-> JoinCodes(PySlice(codes, 2000, Len(codes)))]
         ELSE [codes |-> JoinCodes(PySlice(codes, 0, 1999)),
               codes2 |-> JoinCodes(PySlice(codes, 2000, 3999)),
               codes3 |-> JoinCodes(PySlice(codes, 4000, Len(codes)))]

\* The rows of the i-th value set, one for each of its code systems. The
\* field vs is not a column (see VersionItemRowsOf); the steward, the
\* definition type and version and the time of access are left out of the
\* provenance.
VsacRowsOf(vss, i) ==
    LET purposes2 == Purposes2(vss[i].Purpose).val
        code_system_codes == CodeSystemCodes(vss[i].Concepts)
    IN [k \in 1..Len(code_system_codes) |->
          [vs |-> i,
           name |-> vss[i].displayName,
           nameVSAC |-> <<"[VSAC] ", vss[i].displayName>>,
           oid |-> vss[i].ID,
           codeSystem |-> code_system_codes[k].code_system,
           limitations |-> purposes2[4],
           intention |-> Join(PySlice(purposes2, 0, 3), "; "),
           provenance |-> <<"OID: ", vss[i].ID, "Code System(s): ">>
                             \o [j \in 1..Len(code_system_codes) |->
                                    code_system_codes[j].code_system]]
          @@ CodeColumns(code_system_codes[k].codes)]

\* The i-th value set stops get_vsac_csv: p[len(p) - 1] of an empty clause,
\* or purposes2[3] of fewer than four clauses once a row is being built.
VsacRowFails(vss, i) ==
    LET p == Purposes2(vss[i].Purpose) IN
    \/ p.exc # NoExc
    \/ vss[i].Concepts # <<>> /\ Len(p.val) < 4

\* get_vsac_csv(value_sets): the data frame returned, or the exception
get_vsac_csv(vss) ==
    IF \E i \in 1..Len(vss) : VsacRowFails(vss, i)
    THEN [exc |-> Exc("IndexError", "get_vsac_csv"), rows |-> <<>>]
    ELSE [exc |-> NoExc,
          rows |-> Concat([i \in 1..Len(vss) |-> VsacRowsOf(vss, i)], Len(vss))]

\* A concept list of n codes of one code system
LongConceptList(n) == [k \in 1..n |-> Concept(ToString(k), "SNOMEDCT")]

\* The arguments of the calls of get_vsac_csv: one value set with a code list
\* of each of the lengths of CodeCounts, and the sequences of records the
\* mapper is given.
VsacCsvArgs ==
    {<<[ID |-> "oid1", displayName |-> DisplayNameOf("oid1"),
        Purpose |-> Purpose4, Concepts |-> LongConceptList(n)]>> :
        n \in CodeCounts}
    \cup {vss \in SeqsUpTo(ValueSetRecords, MaxValueSets) : Len(vss) > 0}

\* ------------------------------------------------------------------------
\* SpecVsacCsv: one call get_vsac_csv(value_sets)
\* ------------------------------------------------------------------------
VsacCsvInit ==
    /\ FetchIdle
    /\ MapperIdle
    /\ SubmitIdle
    /\ arg \in VsacCsvArgs
    /\ applied = None
    /\ result = None

CallGetVsacCsv ==
    /\ applied = None
    /\ arg \in VsacCsvArgs
    /\ applied' = "get_vsac_csv"
    /\ result' = get_vsac_csv(arg)
    /\ UNCHANGED arg
    /\ UNCHANGED <<fetchVars, mapperVars, submitVars>>

VsacCsvNext == CallGetVsacCsv

SpecVsacCsv == VsacCsvInit /\ [][VsacCsvNext]_vars

\* ------------------------------------------------------------------------
\* Properties of SpecVsacCsv
\* ------------------------------------------------------------------------
\* The entries of a column: the codes between the delimiters; an empty
\* column has none.
Entries(column) ==
    IF column = <<>> THEN <<>>
    ELSE [i \in 1..((Len(column) + 1) \div 2) |-> column[2 * i - 1]]

\* The codes of the code system of a row, in the order of the concept list
CodesOfRow(row) ==
    LET ofSystem == SelectSeq(arg[row.vs].Concepts,
                              LAMBDA c : c.codeSystem = row.codeSystem)
    IN [i \in 1..Len(ofSystem) |-> ofSystem[i].code]

HasColumn(row, column) == column \in DOMAIN row

Min(a, b) == IF a < b THEN a ELSE b

VsacCsvReturned == applied = "get_vsac_csv" /\ result.exc = NoExc

\* C11 (as claimed): a code list of more than 2000 entries is split at the
\* documented boundaries: codes holds the entries 0-1999 (2000 entries),
\* codes2 the entries 2000-3999 and codes3 the entries from 4000 on, codes3
\* being there only for more than 4000 entries.
C11_Claim_SplitBoundaries ==
    VsacCsvReturned =>
       \A k \in 1..Len(result.rows) :
          LET row == result.rows[k]
              codes == CodesOfRow(row)
              n == Len(codes)
          IN n > 2000 =>
                /\ Entries(row.codes) = SubSeq(codes, 1, 2000)
                /\ HasColumn(row, "codes2")
                /\ Entries(row.codes2) = SubSeq(codes, 2001, Min(n, 4000))
                /\ HasColumn(row, "codes3") <=> n > 4000
                /\ HasColumn(row, "codes3") =>
                      Entries(row.codes3) = SubSeq(codes, 4001, n)

\* The columns of a row that hold codes, one after the other
AllEntries(row) ==
    Entries(row.codes)
    \o (IF HasColumn(row, "codes2") THEN Entries(row.codes2) ELSE <<>>)
    \o (IF HasColumn(row, "codes3") THEN Entries(row.codes3) ELSE <<>>)

\* C18 (as claimed): get_vsac_csv loses and duplicates no code: the entries
\* of codes, codes2 and codes3 of a row, one after the other, are the codes of
\* its code system in their order, and a list of at most 2000 codes is whole
\* in codes, the row having no codes2 and no codes3.
C18_Claim_NoCodeLost ==
    VsacCsvReturned =>
       \A k \in 1..Len(result.rows) :
          LET row == result.rows[k]
              codes == CodesOfRow(row)
          IN /\ AllEntries(row) = codes
             /\ Len(codes) <= 2000 =>
                   /\ Entries(row.codes) = codes
                   /\ ~HasColumn(row, "codes2")
                   /\ ~HasColumn(row, "codes3")

\* ========================================================================
\* vsac_wrangler/main.py: the places that decompose the purpose text
\* ========================================================================
\* number of tokens of the longest clause text of a well-formed purpose
MaxText == 1

\* The labels of the clauses, by the index at which vsac_to_vsac reads the
\* clause in `purposes`
Labels ==
    <<"Clinical Focus: ", "Data Element Scope: ", "Inclusion Criteria: ",
      "Exclusion Criteria: ">>

\* "Intention" of vsac_to_vsac: its keys in the order of the dictionary, each
\* with the index (from 1) of the clause it reads and the label it splits at
IntentionSources_by_position ==
    <<[key |-> "Clinical Focus", clause |-> 1, label |-> <<"(", Labels[1]>>],
      [key |-> "Inclusion Criteria", clause |-> 2, label |-> <<"(", Labels[3]>>],
      [key |-> "Data Element Scope", clause |-> 3, label |-> <<"(", Labels[2]>>],
      [key |-> "Exclusion Criteria", clause |-> 4, label |-> <<"(", Labels[4]>>]>>

IntentionSources ==
    <<[key |-> "Clinical Focus", clause |-> 1, label |-> <<"(", Labels[1]>>],
      [key |-> "Inclusion Criteria", clause |-> 3, label |-> <<"(", Labels[3]>>],
      [key |-> "Data Element Scope", clause |-> 2, label |-> <<"(", Labels[2]>>],
      [key |-> "Exclusion Criteria", clause |-> 4, label |-> <<"(", Labels[4]>>]>>

\* vsac_to_vsac(v) with depth=2: the dictionary returned, of which the model
\* keeps "Concept Set Name" and "Intention", or the exception. purposes[k]
\* raises when there are too few clauses, split(label)[1] when the clause
\* does not hold the label.
vsac_to_vsac(v) ==
    LET purposes == Split(v.Purpose, <<")", ",">>)
        parts(src) == Split(purposes[src.clause], src.label)
        raises(src) == \/ Len(purposes) < src.clause
                       \/ Len(parts(src)) < 2
    IN IF \E k \in 1..Len(IntentionSources) : raises(IntentionSources[k])
       THEN [exc |-> Exc("IndexError", "vsac_to_vsac"), d |-> None]
       ELSE [exc |-> NoExc,
             d |-> [ConceptSetName |-> v.displayName,
                    Intention |->
                       [key \in {IntentionSources[k].key :
                                    k \in 1..Len(IntentionSources)} |->
                          LET src == CHOOSE x \in
                                        {IntentionSources[k] :
                                            k \in 1..Len(IntentionSources)} :
                                        x.key = key
                          IN parts(src)[2]]]]

\* The texts of the clauses of the purposes handed over
TextTokens == {"a", ")", ","}
Texts == SeqsUpTo(TextTokens, MaxText)
PlainTexts == {<<>>, <<"a">>}

\* The purpose text of clauses with the given texts, the clauses at the
\* positions of `labelled` carrying their label
PurposeText(a) ==
    Join([k \in 1..Len(a.texts) |->
             <<"(">> \o (IF k \in a.labelled THEN <<Labels[k]>> ELSE <<>>)
                     \o a.texts[k] \o <<")">>], ",")

\* exactly four "),"-separated clauses with the correct labels
WellFormed(a) ==
    /\ Len(a.texts) = 4
    /\ a.labelled = 1..4
    /\ Len(Split(PurposeText(a), <<")", ",">>)) = 4

\* fewer than four clauses, or a clause without its label
Malformed(a) ==
    \/ Len(a.texts) < 4
    \/ a.labelled # 1..Len(a.texts)

PurposeArgs ==
    {a \in {[texts |-> t, labelled |-> 1..4] : t \in [1..4 -> Texts]} :
        WellFormed(a)}
    \cup {[texts |-> t, labelled |-> 1..Len(t)] : t \in SeqsUpTo(PlainTexts, 3)}
    \cup {[texts |-> t, labelled |-> L] :
             t \in [1..4 -> PlainTexts], L \in (SUBSET (1..4)) \ {1..4}}

\* The value set of one concept that carries the purpose
PurposeRecord(a) ==
    [ID |-> "oid1", displayName |-> DisplayNameOf("oid1"),
     Purpose |-> PurposeText(a), Concepts |-> <<Concept("c1", "SNOMEDCT")>>]

Raised(fn) == [exc |-> Exc("IndexError", fn), purposes2 |-> None, row |-> None]

Built(vss, row) ==
    [exc |-> NoExc, purposes2 |-> Purposes2(vss[1].Purpose).val, row |-> row]

\* ------------------------------------------------------------------------
\* SpecPurpose: one value set goes through one of the places that decompose
\* its purpose
\* ------------------------------------------------------------------------
PurposeInit ==
    /\ FetchIdle
    /\ MapperIdle
    /\ SubmitIdle
    /\ arg \in PurposeArgs
    /\ applied = None
    /\ result = None

\* get_palantir_csv, II.2: the code_sets row
BuildCodeSetRow ==
    /\ applied = None
    /\ arg \in PurposeArgs
    /\ applied' = "code_sets"
    /\ LET vss == <<PurposeRecord(arg)>> IN
       result' = IF FirstFailing(vss, 1, TRUE) # 0
                 THEN Raised("get_palantir_csv")
                 ELSE Built(vss, CodeSetRowOf(vss, CodesetIds(vss, <<7>>), 1))
    /\ UNCHANGED arg
    /\ UNCHANGED <<fetchVars, mapperVars, submitVars>>

\* get_palantir_csv, II.3: the container row, reached once the loop of II.2
\* has come to its end
BuildContainerRow ==
    /\ applied = None
    /\ arg \in PurposeArgs
    /\ LET vss == <<PurposeRecord(arg)>> IN
       /\ FirstFailing(vss, 1, TRUE) = 0
       /\ result' = Built(vss, ContainerRowsOf(vss, 1)[1])
    /\ applied' = "container"
    /\ UNCHANGED arg
    /\ UNCHANGED <<fetchVars, mapperVars, submitVars>>

\* get_vsac_csv: the row of the code system of the value set
BuildVsacRow ==
    /\ applied = None
    /\ arg \in PurposeArgs
    /\ applied' = "vsac_csv"
    /\ LET vss == <<PurposeRecord(arg)>> IN
       result' = IF get_vsac_csv(vss).exc # NoExc
                 THEN Raised("get_vsac_csv")
                 ELSE Built(vss, get_vsac_csv(vss).rows[1])
    /\ UNCHANGED arg
    /\ UNCHANGED <<fetchVars, mapperVars, submitVars>>

\* run with the JSON format: vsac_to_vsac(value_set)
CallVsacToVsac ==
    /\ applied = None
    /\ arg \in PurposeArgs
    /\ applied' = "vsac_to_vsac"
    /\ result' = vsac_to_vsac(PurposeRecord(arg))
    /\ UNCHANGED arg
    /\ UNCHANGED <<fetchVars, mapperVars, submitVars>>

PurposeNext ==
    \/ BuildCodeSetRow
    \/ BuildContainerRow
    \/ BuildVsacRow
    \/ CallVsacToVsac

SpecPurpose == PurposeInit /\ [][PurposeNext]_vars

\* ------------------------------------------------------------------------
\* Properties of SpecPurpose
\* ------------------------------------------------------------------------
CsvPlaces == {"code_sets", "container", "vsac_csv"}

\* The key of "Intention" that holds the k-th clause
IntentionKey(k) ==
    <<"Clinical Focus", "Data Element Scope", "Inclusion Criteria",
      "Exclusion Criteria">>[k]

StartsWith(s, prefix) ==
    Len(prefix) <= Len(s) /\ SubSeq(s, 1, Len(prefix)) = prefix

\* The decomposition gave exactly four sub-fields in the order of the
\* clauses: in the tables the k-th entry of purposes2 is the one of the k-th
\* label, in the JSON conversion the key of the k-th clause holds the text of
\* the k-th clause.
FourSubFieldsInOrder ==
    /\ result.exc = NoExc
    /\ applied \in CsvPlaces =>
          /\ Len(result.purposes2) = 4
          /\ \A k \in 1..4 : StartsWith(result.purposes2[k], <<Labels[k]>>)
    /\ applied = "vsac_to_vsac" =>
          /\ DOMAIN result.d.Intention = {IntentionKey(k) : k \in 1..4}
          /\ \A k \in 1..4 :
                StartsWith(result.d.Intention[IntentionKey(k)], arg.texts[k])

\* The k-th sub-field the place has produced
SubField(k) ==
    IF applied = "vsac_to_vsac" THEN result.d.Intention[IntentionKey(k)]
    ELSE result.purposes2[k]

\* C12 (as claimed): for a purpose of exactly four "),"-separated clauses
\* with the correct labels the decomposition yields exactly four sub-fields
\* in the fixed order, every one of them non-empty.
C12_Claim_FourNonEmptySubFields ==
    (applied # None /\ WellFormed(arg)) =>
       /\ FourSubFieldsInOrder
       /\ \A k \in 1..4 : SubField(k) # <<>>

\* C12 (amended): for a purpose of exactly four "),"-separated clauses with
\* the correct labels the decomposition yields exactly four sub-fields in the
\* fixed order; the sub-field of a clause that has a text after its label is
\* non-empty.
C12_FourSubFieldsInOrder ==
    (applied # None /\ WellFormed(arg)) =>
       /\ FourSubFieldsInOrder
       /\ \A k \in 1..4 : arg.texts[k] # <<>> => SubField(k) # <<>>

\* C12 witness: the JSON conversion has decomposed a well-formed purpose
\* whose first clause has a text and whose second has none, all four clauses
\* differing.
C12_Witness ==
    /\ applied = "vsac_to_vsac"
    /\ WellFormed(arg)
    /\ arg.texts[1] # <<>>
    /\ arg.texts[2] = <<>>
    /\ arg.texts[3] # <<>>
    /\ result.exc = NoExc
    /\ SubField(2) = <<>>

\* The label of a clause occurs in the text
HoldsLabel(text) == \E i \in 1..Len(text), k \in 1..4 : text[i] = Labels[k]

\* The texts a place emits: the columns intention and limitations of its
\* row, the values of "Intention" in the JSON conversion
EmittedTexts ==
    IF applied = "vsac_to_vsac" THEN {SubField(k) : k \in 1..4}
    ELSE {result.row.intention}
         \cup (IF HasColumn(result.row, "limitations")
               THEN {result.row.limitations} ELSE {})

\* C13 (as claimed): after the decomposition of a well-formed purpose every
\* sub-field has lost its label, the first has no leading and the last no
\* trailing parenthesis of the clause, so that the intention and limitations
\* texts emitted hold neither the labels nor the enclosing parentheses.
C13_Claim_LabelsAndParensStripped ==
    (applied # None /\ WellFormed(arg) /\ result.exc = NoExc) =>
       /\ \A k \in 1..4 : ~HoldsLabel(SubField(k))
       /\ ~StartsWith(SubField(1), <<"(">>)
       /\ SubField(4) # arg.texts[4] \o <<")">>
       /\ \A t \in EmittedTexts : ~HoldsLabel(t)

\* C14 (as claimed): a malformed purpose (fewer than four clauses, or a
\* clause without its label) makes every place that decomposes it fail with
\* an out-of-range index error, so that no row is emitted for it.
C14_Claim_MalformedPurposeFails ==
    (applied # None /\ Malformed(arg)) =>
       /\ result.exc # NoExc
       /\ result.exc.type = "IndexError"

\* ========================================================================
\* _datetime_palantir_format of vsac_wrangler/main.py and of
\* enclave_wrangler/main.py
\* ========================================================================
\* Strings are sequences of characters here.
DigitChar(d) == <<"0", "1", "2", "3", "4", "5", "6", "7", "8", "9">>[d + 1]

RECURSIVE Pow10(_)
Pow10(n) == IF n = 0 THEN 1 ELSE 10 * Pow10(n - 1)

\* n as a decimal number of `width` digits, zero-padded (%m, %d, %H, %M, %S
\* with width 2, %f with width 6, %Y with width 4)
Digits(n, width) ==
    [i \in 1..width |-> DigitChar((n \div Pow10(width - i)) % 10)]

\* now.strftime("%Y-%m-%dT%H:%M:%S.%fZ")
Strftime(now) ==
    Digits(now.year, 4) \o <<"-">> \o Digits(now.month, 2) \o <<"-">>
    \o Digits(now.day, 2) \o <<"T">> \o Digits(now.hour, 2) \o <<":">>
    \o Digits(now.minute, 2) \o <<":">> \o Digits(now.second, 2) \o <<".">>
    \o Digits(now.microsecond, 6) \o <<"Z">>

\* The timestamp with the milliseconds rounded to the nearest instead of cut
datetime_palantir_format_rounding(now) ==
    PySlice(Strftime(now), 0, -7)
    \o Digits(((now.microsecond + 500) \div 1000) % 1000, 3) \o <<"Z">>

\* _datetime_palantir_format() of vsac_wrangler/main.py, `now` being
\* datetime.now(timezone.utc)
datetime_palantir_format(now) == PySlice(Strftime(now), 0, -4) \o <<"Z">>

\* _datetime_palantir_format() of enclave_wrangler/main.py
enclave_datetime_palantir_format(now) ==
    PySlice(Strftime(now), 0, -4) \o <<"Z">>

\* The values of datetime.now(timezone.utc) of the calls: the ends of the
\* range of each field, and microseconds at which cutting and rounding differ
Instants ==
    [year : {2021, 9999}, month : {1, 12}, day : {1, 31}, hour : {0, 23},
     minute : {0, 59}, second : {0, 59},
     microsecond : {0, 999, 1500, 48000, 123456, 999499, 999500, 999999}]

\* ------------------------------------------------------------------------
\* SpecTimestamp: one call of _datetime_palantir_format()
\* ------------------------------------------------------------------------
TimestampInit ==
    /\ FetchIdle
    /\ MapperIdle
    /\ SubmitIdle
    /\ arg \in Instants
    /\ applied = None
    /\ result = None

CallDatetimePalantirFormat ==
    /\ applied = None
    /\ arg \in Instants
    /\ applied' = "vsac_wrangler._datetime_palantir_format"
    /\ result' = datetime_palantir_format(arg)
    /\ UNCHANGED arg
    /\ UNCHANGED <<fetchVars, mapperVars, submitVars>>

CallEnclaveDatetimePalantirFormat ==
    /\ applied = None
    /\ arg \in Instants
    /\ applied' = "enclave_wrangler._datetime_palantir_format"
    /\ result' = enclave_datetime_palantir_format(arg)
    /\ UNCHANGED arg
    /\ UNCHANGED <<fetchVars, mapperVars, submitVars>>

TimestampNext ==
    \/ CallDatetimePalantirFormat
    \/ CallEnclaveDatetimePalantirFormat

SpecTimestamp == TimestampInit /\ [][TimestampNext]_vars

\* ------------------------------------------------------------------------
\* Properties of SpecTimestamp
\* ------------------------------------------------------------------------
IsDigit(c) == \E d \in 0..9 : c = DigitChar(d)

DigitValue(c) == CHOOSE d \in 0..9 : c = DigitChar(d)

\* The number the characters s[a..b] are the decimal digits of
RECURSIVE Number(_, _, _)
Number(s, a, b) ==
    IF a > b THEN 0 ELSE 10 * Number(s, a, b - 1) + DigitValue(s[b])

\* The positions of YYYY-MM-DDTHH:MM:SS.mmmZ that are not digits
Punctuation ==
    [i \in {5, 8, 11, 14, 17, 20, 24} |->
        CASE i \in {5, 8} -> "-"
          [] i = 11 -> "T"
          [] i \in {14, 17} -> ":"
          [] i = 20 -> "."
          [] i = 24 -> "Z"]

\* C16: _datetime_palantir_format() returns a timestamp of exactly the shape
\* YYYY-MM-DDTHH:MM:SS.mmmZ for the instant of the call, the microseconds cut
\* (not rounded) to three digits, with exactly one Z, at the end.
C16_TimestampShape ==
    applied # None =>
       /\ Len(result) = 24
       /\ \A i \in 1..24 :
             IF i \in DOMAIN Punctuation THEN result[i] = Punctuation[i]
             ELSE IsDigit(result[i])
       /\ Cardinality({i \in 1..Len(result) : result[i] = "Z"}) = 1
       /\ Number(result, 1, 4) = arg.year
       /\ Number(result, 6, 7) = arg.month
       /\ Number(result, 9, 10) = arg.day
       /\ Number(result, 12, 13) = arg.hour
       /\ Number(result, 15, 16) = arg.minute
       /\ Number(result, 18, 19) = arg.second
       /\ Number(result, 21, 23) = arg.microsecond \div 1000

\* C16 witness: the call was made at an instant whose microseconds, 999500,
\* round up to the next millisecond, and returned the milliseconds 999.
C16_Witness ==
    /\ applied = "vsac_wrangler._datetime_palantir_format"
    /\ arg.microsecond = 999500
    /\ SubSeq(result, 21, 24) = <<"9", "9", "9", "Z">>

\* The union of the components, each started by its own Init.
Init ==
    \/ FetchInit
    \/ MapperInit
    \/ SubmitInit
    \/ VsacCsvInit
    \/ PurposeInit
    \/ TimestampInit

Next ==
    \/ FetchNext
    \/ MapperNext
    \/ SubmitNext
    \/ VsacCsvNext
    \/ PurposeNext
    \/ TimestampNext

Spec == Init /\ [][Next]_vars
====
